---- MODULE Spec2Model ----
(***************************************************************************)
(* odbc2deltalake: the load orchestrator exec_write_db_to_delta and the    *)
(* loaders it dispatches to (db_to_delta.py), as a state machine over      *)
(*   - the source table (rows keyed by primary key, with a delta column),  *)
(*   - the destination: meta/lock.txt, delta/, delta_load/latest_pk (a     *)
(*     versioned table), delta_load/{delta_1, delta_2, primary_keys_ts},   *)
(*   - one record of local variables per orchestrator run.                 *)
(* Every call into the source driver, the lake engine or the destination   *)
(* file system is a suspension point: a run advances one call at a time    *)
(* (its position is run[r].pc), and each such call may raise.              *)
(***************************************************************************)
EXTENDS Integers, Sequences, FiniteSets, TLC

\* ------------------------------------------------------------------ bounds
NumPk == 2
MaxDc == 1
MaxRuns == 3
MaxChanges == 2
MaxFaults == 2
FaultRuns == 2
FaultChanges == 1
ConcRuns == 2
MaxSkew == 1
MaxAlter == 1
MaxStrange == 160
\* rendered lengths, in characters: the OPENJSON statement without the content
\* of its JSON literal for a narrow and for a wide table, and one PK record
\* inside the literal for an integer key and for a long character key
NarrowSqlLen == 400
WideSqlLen == 2000
IntPkLen == 9
LongPkLen == 5100

\* SQL NULL / Python None
Null == -1

PKs == 1..NumPk
\* delta column values; 0 is a legitimate (falsy) value
Dcs == 0..MaxDc
AllRunners == {1, 2}

Modes == {"auto", "overwrite", "append", "force_full", "simple_delta", "append_inserts"}

VARIABLES
    src,          \* the source table: a set of [pk, dc, val], pk unique
    now,          \* the source server's clock (GETUTCDATE)
    skew,         \* lake clock minus source clock (CURRENT_TIMESTAMP is read on the lake side)
    tbl,          \* infos: [havePk, pkIdentity, deltaCol], the rendered lengths [baseLen, pkLen]
                  \* and the version of the column set, col_infos [cols]
    meta,         \* meta/schema.json: the number of times it has been uploaded
    schema,       \* meta/schema.json: the column set it holds
    deltaCols,    \* the column set of the most recent write into delta/
    lock,         \* meta/lock.txt: "none", "fresh" (younger than 1 h) or "stale"
    deltaExists,  \* local_delta_table_exists(destination / "delta")
    delta,        \* rows of delta/: [pk, dc, val, vf, del, full]
    lpk,          \* delta_load/latest_pk: the sequence of its versions (row sets of [pk, dc])
    d1,           \* delta_load/delta_1
    d2,           \* delta_load/delta_2
    pkts,         \* delta_load/primary_keys_ts
    run,          \* per orchestrator run: its local variables and position
    procs,        \* the orchestrator processes that exist
    runs,         \* number of runs that may still start
    changes,      \* number of source changes that may still be made
    faults        \* number of calls that may still raise

vars == <<src, now, skew, tbl, meta, schema, deltaCols, lock, deltaExists, delta, lpk, d1, d2, pkts,
          run, procs, runs, changes, faults>>

\* ----------------------------------------------------------------- helpers
MaxOf(S) == IF S = {} THEN Null ELSE CHOOSE x \in S : \A y \in S : y <= x

MinOf(S) == IF S = {} THEN Null ELSE CHOOSE x \in S : \A y \in S : x <= y

\* the valid source tables: at most one row per primary key; the payload of a
\* row is versioned by its delta column (a rowversion / updated-at column)
SrcRow(p, d) == [pk |-> p, dc |-> d, val |-> d]

Sources == {{SrcRow(p, f[p]) : p \in K} : f \in [PKs -> Dcs], K \in SUBSET PKs}

\* the version() of latest_pk, and the rows of one of its versions
LpkExists == Len(lpk) > 0

LpkVersion == Len(lpk) - 1

LpkAt(v) == lpk[v + 1]

LpkRows == IF LpkExists THEN lpk[Len(lpk)] ELSE {}

\* the clock of the lake engine
LakeNow == now + skew

\* _get_cols_select over pk_cols: the PK columns of a row (none without PKs)
PkOf(r) == IF tbl.havePk THEN r.pk ELSE Null

\* projection (pk..., delta_col)
PkDc(r) == [pk |-> PkOf(r), dc |-> r.dc]

PkSet(S) == {PkOf(r) : r \in S}

\* _get_update_sql / do_full_load's SELECT: the source rows that pass the
\* criterion delta_col > w (all of them when there is no criterion), with the
\* augmentation columns
SelectSourceAll(t, isFull) ==
    {[pk |-> s.pk, dc |-> s.dc, val |-> s.val, vf |-> t, del |-> FALSE, full |-> isFull] : s \in src}

\* variant: the rows are flagged as a full load
_get_update_sql_full(w, t) ==
    {r \in SelectSourceAll(t, TRUE) : w = Null \/ r.dc > w}

_get_update_sql(w, t) ==
    {r \in SelectSourceAll(t, FALSE) : w = Null \/ r.dc > w}

\* _get_latest_delta_value: MAX(delta_col) over delta/ (NULLs ignored)
_get_latest_delta_value == MaxOf({r.dc : r \in delta} \ {Null})

\* ------------------------------------------------------------------- state
InitRun == [pc |-> "idle", mode |-> "auto", noComplex |-> FALSE,
            lastVersionPk |-> Null, oldPkVersion |-> Null,
            deltaLoadValue |-> Null, maxValidFrom |-> Null,
            flMode |-> "none", luRet |-> "none", chunks |-> <<>>, first |-> TRUE,
            maxSql |-> 0,
            branch |-> "none", strange |-> "none", result |-> "none",
            \* what the run found and did, for the properties below
            hadDelta |-> FALSE, hadLpk |-> FALSE, preLpk |-> {}, preDelta |-> {},
            failedAt |-> "none", absorbed |-> FALSE, restoreFailed |-> FALSE,
            unlockFailed |-> FALSE, created |-> FALSE, wrotePk |-> FALSE,
            trail |-> {}, restoreFalse |-> FALSE, metaBefore |-> 0,
            prevBranch |-> "none", prevResult |-> "none", prevSrc |-> {},
            prevFlMode |-> "none", prevFailedAt |-> "none",
            prevPreDelta |-> {}, prevOldLpk |-> {},
            prevStrange |-> "none", prevNoComplex |-> FALSE,
            startChanges |-> 0, prevChanged |-> FALSE]

Tables == [havePk : BOOLEAN, pkIdentity : BOOLEAN, deltaCol : {"none", "dc"},
           baseLen : {NarrowSqlLen}, pkLen : {IntPkLen}, cols : {0}]

InitCommon ==
    /\ src \in Sources
    /\ now = MaxSkew + 1
    /\ meta = 0
    /\ schema = Null
    /\ deltaCols = Null
    /\ lock = "none"
    /\ deltaExists = FALSE
    /\ delta = {}
    /\ lpk = <<>>
    /\ d1 = {}
    /\ d2 = {}
    /\ pkts = {}
    /\ run = [r \in AllRunners |-> InitRun]

Goto(r, p) == run' = [run EXCEPT ![r].pc = p, ![r].trail = @ \cup {run[r].pc}]

AllIdle == \A r \in AllRunners : run[r].pc = "idle"

\* ----------------------------------------------------------- source changes
Insert ==
    /\ changes > 0
    /\ \E p \in PKs, d \in Dcs :
        /\ p \notin {s.pk : s \in src}
        /\ src' = src \cup {SrcRow(p, d)}
    /\ changes' = changes - 1
    /\ UNCHANGED <<now, skew, tbl, meta, schema, deltaCols, lock, deltaExists, delta, lpk, d1, d2, pkts, run, procs, runs, faults>>

Update ==
    /\ changes > 0
    /\ \E s \in src, d \in Dcs :
        /\ d # s.dc
        /\ src' = (src \ {s}) \cup {SrcRow(s.pk, d)}
    /\ changes' = changes - 1
    /\ UNCHANGED <<now, skew, tbl, meta, schema, deltaCols, lock, deltaExists, delta, lpk, d1, d2, pkts, run, procs, runs, faults>>

Delete ==
    /\ changes > 0
    /\ \E s \in src : src' = src \ {s}
    /\ changes' = changes - 1
    /\ UNCHANGED <<now, skew, tbl, meta, schema, deltaCols, lock, deltaExists, delta, lpk, d1, d2, pkts, run, procs, runs, faults>>

\* ALTER TABLE between two calls: the next call sees another column set
AlterTable ==
    /\ tbl.cols < MaxAlter
    /\ tbl' = [tbl EXCEPT !.cols = @ + 1]
    /\ UNCHANGED <<src, now, skew, meta, schema, deltaCols, lock, deltaExists, delta, lpk, d1, d2, pkts, run, procs, runs, changes, faults>>

\* ------------------------------------------------- exec_write_db_to_delta
\* the caller enters exec_write_db_to_delta; the fields had*/pre* remember the
\* destination as the run found it, the fields prev* the caller's previous call
StartRun(r) ==
    /\ run[r].pc = "idle"
    /\ runs > 0
    /\ runs' = runs - 1
    /\ run' = [run EXCEPT ![r].trail = @ \cup {run[r].pc}, ![r].pc = "meta",
                          ![r].hadDelta = deltaExists, ![r].hadLpk = LpkExists,
                          ![r].preLpk = LpkRows, ![r].preDelta = delta,
                          ![r].metaBefore = meta, ![r].startChanges = changes]
    /\ UNCHANGED <<src, now, skew, tbl, meta, schema, deltaCols, lock, deltaExists, delta, lpk, d1, d2, pkts, procs, changes, faults>>

\* meta/ and meta/schema.json are written before anything else
WriteMeta(r) ==
    /\ run[r].pc = "meta"
    /\ meta' = meta + 1
    /\ schema' = tbl.cols
    /\ Goto(r, "probe")
    /\ UNCHANGED <<src, now, skew, tbl, deltaCols, lock, deltaExists, delta, lpk, d1, d2, pkts, procs, runs, changes, faults>>

\* last_version_pk: the version of latest_pk the run found, None without one
ProbeVersion(r) ==
    /\ run[r].pc = "probe"
    /\ run' = [run EXCEPT ![r].trail = @ \cup {run[r].pc}, ![r].pc = "lock",
                          ![r].lastVersionPk = IF LpkExists THEN LpkVersion ELSE Null]
    /\ UNCHANGED <<src, now, skew, tbl, meta, schema, deltaCols, lock, deltaExists, delta, lpk, d1, d2, pkts, procs, runs, changes, faults>>

\* version() raises: logged as a warning, last_version_pk = None
ProbeVersionRaises(r) ==
    /\ run[r].pc = "probe"
    /\ LpkExists
    /\ faults > 0
    /\ faults' = faults - 1
    /\ run' = [run EXCEPT ![r].trail = @ \cup {run[r].pc}, ![r].pc = "lock", ![r].lastVersionPk = Null]
    /\ UNCHANGED <<src, now, skew, tbl, meta, schema, deltaCols, lock, deltaExists, delta, lpk, d1, d2, pkts, procs, runs, changes>>

\* a call before the try block raises: nothing handles it
FailEarly(r) ==
    /\ run[r].pc \in {"meta", "probe"}
    /\ faults > 0
    /\ faults' = faults - 1
    /\ run' = [run EXCEPT ![r].trail = @ \cup {run[r].pc}, ![r].pc = "done", ![r].result = "error", ![r].failedAt = run[r].pc]
    /\ UNCHANGED <<src, now, skew, tbl, meta, schema, deltaCols, lock, deltaExists, delta, lpk, d1, d2, pkts, procs, runs, changes>>

\* more than an hour passes over a lock file
AgeLock ==
    /\ lock = "fresh"
    /\ lock' = "stale"
    /\ UNCHANGED <<src, now, skew, tbl, meta, schema, deltaCols, deltaExists, delta, lpk, d1, d2, pkts, run, procs, runs, changes, faults>>

\* a stale lock is removed; the lock file is then (re)written, whether or not
\* one is there
AcquireLock(r) ==
    /\ run[r].pc = "lock"
    /\ lock' = "fresh"
    /\ run' = [run EXCEPT ![r].trail = @ \cup {run[r].pc}, ![r].pc = "dispatch", ![r].created = TRUE]
    /\ UNCHANGED <<src, now, skew, tbl, meta, schema, deltaCols, deltaExists, delta, lpk, d1, d2, pkts, procs, runs, changes, faults>>

\* variant: the full-load test is made before the append_inserts test
DispatchBranchFullFirst(exists, m, hasDc, nPk) ==
    IF ~exists \/ m = "overwrite" THEN "full_overwrite"
    ELSE IF ~hasDc \/ nPk = 0 \/ m = "force_full" THEN "full_append"
    ELSE IF m = "append_inserts" THEN "append_inserts"
    ELSE IF m = "simple_delta" THEN "simple_delta"
    ELSE "delta"

\* variant: load_mode = append always appends a full load
DispatchBranchAppendFull(exists, m, hasDc, nPk) ==
    IF ~exists \/ m = "overwrite" THEN "full_overwrite"
    ELSE IF m = "append_inserts" THEN "append_inserts"
    ELSE IF ~hasDc \/ nPk = 0 \/ m \in {"force_full", "append"} THEN "full_append"
    ELSE IF m = "simple_delta" THEN "simple_delta"
    ELSE "delta"

\* the branch of the if / elif / else that is taken
DispatchBranch(exists, m, hasDc, nPk) ==
    IF ~exists \/ m = "overwrite" THEN "full_overwrite"
    ELSE IF m = "append_inserts" THEN "append_inserts"
    ELSE IF ~hasDc \/ nPk = 0 \/ m = "force_full" THEN "full_append"
    ELSE IF m = "simple_delta" THEN "simple_delta"
    ELSE "delta"

NumPkCols == IF tbl.havePk THEN 1 ELSE 0

HasDc == tbl.deltaCol # "none"

\* the two assertions of the append_inserts branch: the local delta_col (an
\* identity PK stands in for a missing one), then infos.delta_col itself
AppendInsertsAsserts ==
    /\ HasDc \/ (NumPkCols = 1 /\ tbl.pkIdentity)
    /\ HasDc

Dispatch(r) ==
    /\ run[r].pc = "dispatch"
    /\ \E m \in Modes :
        LET b == DispatchBranch(deltaExists, m, HasDc, NumPkCols)
            next == CASE b = "full_overwrite" -> "fl_max"
                      [] b = "full_append" -> "fl_max"
                      [] b = "append_inserts" ->
                            IF AppendInsertsAsserts THEN "ai_watermark" ELSE "except"
                      [] OTHER -> "dl_begin"
        IN run' = [run EXCEPT ![r].trail = @ \cup {run[r].pc}, ![r].pc = next, ![r].mode = m, ![r].branch = b,
                              ![r].flMode = CASE b = "full_overwrite" -> "overwrite"
                                              [] b = "full_append" -> "append"
                                              [] OTHER -> "none",
                              ![r].result = IF next = "except" THEN "error" ELSE "none",
                              ![r].failedAt = IF next = "except" THEN "dispatch" ELSE "none"]
    /\ UNCHANGED <<src, now, skew, tbl, meta, schema, deltaCols, lock, deltaExists, delta, lpk, d1, d2, pkts, procs, runs, changes, faults>>

\* ------------------------------------------------------------ do_full_load
FullLoadMax(r) ==
    /\ run[r].pc = "fl_max"
    /\ run' = [run EXCEPT ![r].trail = @ \cup {run[r].pc}, ![r].pc = "fl_write",
                          ![r].maxValidFrom = IF deltaExists THEN MaxOf({x.vf : x \in delta}) ELSE Null]
    /\ UNCHANGED <<src, now, skew, tbl, meta, schema, deltaCols, lock, deltaExists, delta, lpk, d1, d2, pkts, procs, runs, changes, faults>>

\* variant: the full load replaces delta/ in append mode too
FullLoadWriteReplaces(r) ==
    /\ run[r].pc = "fl_write"
    /\ delta' = SelectSourceAll(now, TRUE)
    /\ deltaExists' = TRUE
    /\ now' = now + 1
    /\ Goto(r, IF HasDc THEN "fl_manifest" ELSE "unlock")
    /\ deltaCols' = tbl.cols
    /\ UNCHANGED <<src, skew, tbl, meta, schema, lock, lpk, d1, d2, pkts, procs, runs, changes, faults>>

FullLoadWrite(r) ==
    /\ run[r].pc = "fl_write"
    /\ delta' = IF run[r].flMode = "overwrite" THEN SelectSourceAll(now, TRUE)
                ELSE delta \cup SelectSourceAll(now, TRUE)
    /\ deltaExists' = TRUE
    /\ now' = now + 1
    /\ Goto(r, IF HasDc THEN "fl_manifest" ELSE "unlock")
    /\ deltaCols' = tbl.cols
    /\ UNCHANGED <<src, skew, tbl, meta, schema, lock, lpk, d1, d2, pkts, procs, runs, changes, faults>>

\* the manifest of a full load: (pk..., delta_col) of the rows of delta/ newer
\* than max_valid_from
FullLoadManifestRows(mvf) == {PkDc(x) : x \in {y \in delta : mvf = Null \/ y.vf > mvf}}

FullLoadManifest(r) ==
    /\ run[r].pc = "fl_manifest"
    /\ lpk' = Append(lpk, FullLoadManifestRows(run[r].maxValidFrom))
    /\ run' = [run EXCEPT ![r].trail = @ \cup {run[r].pc}, ![r].pc = "unlock", ![r].wrotePk = TRUE]
    /\ UNCHANGED <<src, now, skew, tbl, meta, schema, deltaCols, lock, deltaExists, delta, d1, d2, pkts, procs, runs, changes, faults>>

\* ----------------------------------------------------------- do_delta_load
\* restore_last_pk: latest_pk rebuilt from delta/ (for each PK its newest row,
\* unless that row is a tombstone)
NewestRows(D) == {x \in D : \A y \in D : PkOf(y) = PkOf(x) => y.vf <= x.vf}

restore_last_pk == {PkDc(x) : x \in {y \in NewestRows(delta) : ~y.del}}

IsSimple(r) == run[r].branch = "simple_delta"

\* latest_pk is missing and is restored
RestorePkSucceeds(r) ==
    /\ run[r].pc = "dl_begin"
    /\ ~IsSimple(r)
    /\ ~LpkExists
    /\ lpk' = <<restore_last_pk>>
    /\ UNCHANGED <<src, now, skew, tbl, meta, schema, deltaCols, lock, deltaExists, delta, d1, d2, pkts, run, procs, runs, changes, faults>>

\* latest_pk is missing and restore_last_pk returns False: full load
RestorePkFails(r) ==
    /\ run[r].pc = "dl_begin"
    /\ ~IsSimple(r)
    /\ ~LpkExists
    /\ run' = [run EXCEPT ![r].trail = @ \cup {run[r].pc}, ![r].pc = "fl_max", ![r].flMode = "append",
                          ![r].restoreFalse = TRUE]
    /\ UNCHANGED <<src, now, skew, tbl, meta, schema, deltaCols, lock, deltaExists, delta, lpk, d1, d2, pkts, procs, runs, changes, faults>>

\* variant: the exception of restore_last_pk reaches the except block
RestorePkPropagates(r) ==
    /\ run[r].pc = "dl_begin"
    /\ ~IsSimple(r)
    /\ ~LpkExists
    /\ faults > 0
    /\ faults' = faults - 1
    /\ run' = [run EXCEPT ![r].trail = @ \cup {run[r].pc}, ![r].pc = "except", ![r].result = "error",
                          ![r].absorbed = TRUE]
    /\ UNCHANGED <<src, now, skew, tbl, meta, schema, deltaCols, lock, deltaExists, delta, lpk, d1, d2, pkts, procs, runs, changes>>

\* latest_pk is missing and restore_last_pk raises: logged as a warning, full load
RestorePkRaises(r) ==
    /\ run[r].pc = "dl_begin"
    /\ ~IsSimple(r)
    /\ ~LpkExists
    /\ faults > 0
    /\ faults' = faults - 1
    /\ run' = [run EXCEPT ![r].trail = @ \cup {run[r].pc}, ![r].pc = "fl_max", ![r].flMode = "append", ![r].absorbed = TRUE]
    /\ UNCHANGED <<src, now, skew, tbl, meta, schema, deltaCols, lock, deltaExists, delta, lpk, d1, d2, pkts, procs, runs, changes>>

\* old_pk_version and the watermark MAX(delta_col) of delta/; without a
\* watermark the run does a full load instead
DeltaBegin(r) ==
    /\ run[r].pc = "dl_begin"
    /\ IsSimple(r) \/ LpkExists
    /\ LET w == _get_latest_delta_value
       IN run' = [run EXCEPT ![r].oldPkVersion = IF IsSimple(r) THEN Null ELSE LpkVersion,
                             ![r].deltaLoadValue = w,
                             ![r].flMode = IF w = Null THEN "append" ELSE "none",
                             ![r].luRet = IF IsSimple(r) THEN "simple_rm" ELSE "hau",
                             ![r].trail = @ \cup {run[r].pc},
                             ![r].pc = IF w = Null THEN "fl_max"
                                       ELSE IF IsSimple(r) THEN "lu_write" ELSE "dl_snapshot"]
    /\ UNCHANGED <<src, now, skew, tbl, meta, schema, deltaCols, lock, deltaExists, delta, lpk, d1, d2, pkts, procs, runs, changes, faults>>

\* step 1: (pk..., delta_col) of every source row into primary_keys_ts
_retrieve_primary_key_data(r) ==
    /\ run[r].pc = "dl_snapshot"
    /\ pkts' = {PkDc(s) : s \in src}
    /\ Goto(r, "lu_write")
    /\ UNCHANGED <<src, now, skew, tbl, meta, schema, deltaCols, lock, deltaExists, delta, lpk, d1, d2, procs, runs, changes, faults>>

\* step 2 (and the replay of step 3, and append_inserts): the source rows past
\* the watermark overwrite delta_1 and, if there are any, are appended to delta/
_load_updates_to_delta(r) ==
    /\ run[r].pc = "lu_write"
    /\ d1' = _get_update_sql(run[r].deltaLoadValue, now)
    /\ delta' = delta \cup d1'
    /\ now' = now + 1
    /\ Goto(r, run[r].luRet)
    /\ deltaCols' = IF d1' # {} THEN tbl.cols ELSE deltaCols
    /\ UNCHANGED <<src, skew, tbl, meta, schema, lock, deltaExists, lpk, d2, pkts, procs, runs, changes, faults>>

\* ----------------------------------------------- _handle_additional_updates
\* variant: no EXCEPT against the manifest
additional_updates_all(r) == pkts

\* additional_updates: (pk, delta_col) pairs of the source that the manifest of
\* the previous run does not hold
additional_updates(r) == pkts \ LpkAt(run[r].oldPkVersion)

\* variant: the PKs step 2 has loaded are kept
real_additional_updates_with_delta_1(r) == {x.pk : x \in additional_updates(r)}

\* their PKs, minus the PKs step 2 has loaded
real_additional_updates(r) == {x.pk : x \in additional_updates(r)} \ PkSet(d1)

StrangeThreshold == 1000

\* n == 0: an empty delta_2
NoStrangeUpdates(r) ==
    /\ run[r].pc = "hau"
    /\ real_additional_updates(r) = {}
    /\ d2' = {}
    /\ Goto(r, "wlp")
    /\ UNCHANGED <<src, now, skew, tbl, meta, schema, deltaCols, lock, deltaExists, delta, lpk, d1, pkts, procs, runs, changes, faults>>

\* variant: no_complex_entries_load is not looked at
ReplayBranchIgnoresFlag(n, nc) == n > StrangeThreshold

\* many strange updates, or no_complex_entries_load: an empty delta_2, then
\* step 2 again from the smallest delta value of additional_updates
ReplayBranch(n, nc) == n > StrangeThreshold \/ nc

ReplayWatermark(r) == MinOf({x.dc : x \in additional_updates(r)})

StrangeReplay(r) ==
    /\ run[r].pc = "hau"
    /\ real_additional_updates(r) # {}
    /\ \E nc \in BOOLEAN :
        /\ ReplayBranch(Cardinality(real_additional_updates(r)), nc)
        /\ run' = [run EXCEPT ![r].trail = @ \cup {run[r].pc}, ![r].pc = "lu_write", ![r].luRet = "wlp",
                              ![r].noComplex = nc, ![r].strange = "replay",
                              ![r].deltaLoadValue = ReplayWatermark(r)]
    /\ d2' = {}
    /\ UNCHANGED <<src, now, skew, tbl, meta, schema, deltaCols, lock, deltaExists, delta, lpk, d1, pkts, procs, runs, changes, faults>>

\* _list_to_chunks: the loop appends items to chunk until len(chunk) >=
\* chunk_size and yields it; what is left at the end is yielded if non-empty.
\* One step here is one yielded chunk: the next `need` items fill it.
RECURSIVE ListToChunksFrom(_, _, _)
ListToChunksFrom(input, chunk, size) ==
    LET need == IF size - Len(chunk) > 1 THEN size - Len(chunk) ELSE 1
    IN IF input = <<>> THEN (IF Len(chunk) > 0 THEN <<chunk>> ELSE <<>>)
       ELSE IF Len(input) < need THEN <<chunk \o input>>
       ELSE <<chunk \o SubSeq(input, 1, need)>>
                \o ListToChunksFrom(SubSeq(input, need + 1, Len(input)), <<>>, size)

_list_to_chunks(input, size) == ListToChunksFrom(input, <<>>, size)

\* the rows of real_additional_updates as the engine returns them (in PK order
\* here): the lower half of the PK range, then the upper half
RECURSIVE SetToSeq(_)
SetToSeq(S) ==
    IF S = {} THEN <<>>
    ELSE LET lo == MinOf(S)
             hi == MaxOf(S)
             mid == (lo + hi) \div 2
         IN IF lo = hi THEN <<lo>>
            ELSE SetToSeq({x \in S : x <= mid}) \o SetToSeq({x \in S : x > mid})

\* estimated JSON size of one PK tuple (one PK column: 10 for an integer type,
\* 40 for any other), and the batch size
CharSizePks == 5 + (IF tbl.pkLen = IntPkLen THEN 10 ELSE 40)

BatchSize == IF 7000 \div CharSizePks > 10 THEN 7000 \div CharSizePks ELSE 10

\* otherwise: the PKs are fetched chunk by chunk through OPENJSON
StrangeChunked(r) ==
    /\ run[r].pc = "hau"
    /\ real_additional_updates(r) # {}
    /\ \E nc \in BOOLEAN :
        /\ ~ReplayBranch(Cardinality(real_additional_updates(r)), nc)
        /\ run' = [run EXCEPT ![r].trail = @ \cup {run[r].pc}, ![r].pc = "ch_write", ![r].noComplex = nc,
                              ![r].strange = "chunked", ![r].first = TRUE,
                              ![r].chunks = _list_to_chunks(SetToSeq(real_additional_updates(r)), BatchSize)]
    /\ UNCHANGED <<src, now, skew, tbl, meta, schema, deltaCols, lock, deltaExists, delta, lpk, d1, d2, pkts, procs, runs, changes, faults>>

Range(q) == {q[i] : i \in 1..Len(q)}

\* variant: the join against the OPENJSON rows is dropped
full_sql_no_join(chunk, t) == SelectSourceAll(t, FALSE)

\* full_sql(json.dumps(chunk)): the source rows whose PK is in the chunk
full_sql(chunk, t) == {x \in SelectSourceAll(t, FALSE) : x.pk \in Range(chunk)}

\* len(full_sql(json.dumps(chunk))) for a chunk of n PK records: the statement
\* text, the quotes of the literal, the brackets, the records and their ", "
JsonLen(n) == 2 + n * tbl.pkLen + (IF n > 0 THEN 2 * (n - 1) ELSE 0)

SqlLen(n) == tbl.baseLen + 2 + JsonLen(n)

SqlLimit == 7000

\* variant: every write to delta_2 uses mode overwrite
ChunkWriteOverwrites(r) ==
    /\ run[r].pc = "ch_write"
    /\ run[r].chunks # <<>>
    /\ LET chunk == Head(run[r].chunks)
           ch_split == Len(chunk) \div 2
       IN /\ IF SqlLen(Len(chunk)) > SqlLimit
             THEN /\ d2' = full_sql(SubSeq(chunk, ch_split + 1, Len(chunk)), now + 1)
                  /\ now' = now + 2
             ELSE /\ d2' = full_sql(chunk, now)
                  /\ now' = now + 1
          /\ run' = [run EXCEPT ![r].chunks = Tail(@), ![r].first = FALSE]
    /\ UNCHANGED <<src, skew, tbl, meta, schema, deltaCols, lock, deltaExists, delta, lpk, d1, pkts, procs, runs, changes, faults>>

\* one chunk; a statement longer than 7000 characters is sent as two halves
ChunkWrite(r) ==
    /\ run[r].pc = "ch_write"
    /\ run[r].chunks # <<>>
    /\ LET chunk == Head(run[r].chunks)
           base == IF run[r].first THEN {} ELSE d2
           ch_split == Len(chunk) \div 2
           sent == IF SqlLen(Len(chunk)) > SqlLimit
                   THEN {SqlLen(ch_split), SqlLen(Len(chunk) - ch_split)}
                   ELSE {SqlLen(Len(chunk))}
       IN /\ IF SqlLen(Len(chunk)) > SqlLimit
             THEN /\ d2' = base \cup full_sql(SubSeq(chunk, 1, ch_split), now)
                               \cup full_sql(SubSeq(chunk, ch_split + 1, Len(chunk)), now + 1)
                  /\ now' = now + 2
             ELSE /\ d2' = base \cup full_sql(chunk, now)
                  /\ now' = now + 1
          /\ run' = [run EXCEPT ![r].chunks = Tail(@), ![r].first = FALSE,
                                ![r].maxSql = MaxOf(sent \cup {@})]
    /\ UNCHANGED <<src, skew, tbl, meta, schema, deltaCols, lock, deltaExists, delta, lpk, d1, pkts, procs, runs, changes, faults>>

\* after the last chunk delta_2 is appended to delta/
ChunksAppend(r) ==
    /\ run[r].pc = "ch_write"
    /\ run[r].chunks = <<>>
    /\ delta' = delta \cup d2
    /\ Goto(r, "wlp")
    /\ deltaCols' = tbl.cols
    /\ UNCHANGED <<src, now, skew, tbl, meta, schema, lock, deltaExists, lpk, d1, d2, pkts, procs, runs, changes, faults>>

\* ----------------------------------------------------------- write_latest_pk
AntiJoin(A, B) == {x \in A : x.pk \notin PkSet(B)}

\* variant: UNION ALL of the three tables without the anti-joins
latest_pk_query_no_anti_join ==
    {PkDc(x) : x \in d2} \cup {PkDc(x) : x \in d1} \cup pkts

latest_pk_query ==
    {PkDc(x) : x \in d2}
        \cup {PkDc(x) : x \in AntiJoin(d1, d2)}
        \cup AntiJoin(AntiJoin(pkts, d2), d1)

write_latest_pk(r) ==
    /\ run[r].pc = "wlp"
    /\ lpk' = Append(lpk, latest_pk_query)
    /\ run' = [run EXCEPT ![r].trail = @ \cup {run[r].pc}, ![r].pc = "deletes", ![r].wrotePk = TRUE]
    /\ UNCHANGED <<src, now, skew, tbl, meta, schema, deltaCols, lock, deltaExists, delta, d1, d2, pkts, procs, runs, changes, faults>>

\* ---------------------------------------------------------------- do_deletes
\* variant: no EXCEPT against the manifest as it is now
delete_query_all(r) == PkSet(LpkAt(run[r].oldPkVersion))

\* variant: EXCEPT against the PK snapshot primary_keys_ts
delete_query_snapshot(r) == PkSet(LpkAt(run[r].oldPkVersion)) \ PkSet(pkts)

\* PKs of the manifest at old_pk_version EXCEPT PKs of the manifest as it is now
delete_query(r) == PkSet(LpkAt(run[r].oldPkVersion)) \ PkSet(LpkRows)

Tombstone(p, t) == [pk |-> p, dc |-> Null, val |-> Null, vf |-> t, del |-> TRUE, full |-> FALSE]

deletes_with_schema(r, t) == {Tombstone(p, t) : p \in delete_query(r)}

\* variant: the tombstones of delta/ are rewritten, not appended to
do_deletes_rewrite(r) ==
    /\ run[r].pc = "deletes"
    /\ delta' = {x \in delta : ~x.del} \cup deletes_with_schema(r, LakeNow)
    /\ deltaCols' = IF delete_query(r) # {} THEN tbl.cols ELSE deltaCols
    /\ now' = now + 1
    /\ Goto(r, "unlock")
    /\ UNCHANGED <<src, skew, tbl, meta, schema, lock, deltaExists, lpk, d1, d2, pkts, procs, runs, changes, faults>>

do_deletes(r) ==
    /\ run[r].pc = "deletes"
    /\ delta' = delta \cup deletes_with_schema(r, LakeNow)
    /\ now' = now + 1
    /\ Goto(r, "unlock")
    /\ deltaCols' = IF delete_query(r) # {} THEN tbl.cols ELSE deltaCols
    /\ UNCHANGED <<src, skew, tbl, meta, schema, lock, deltaExists, lpk, d1, d2, pkts, procs, runs, changes, faults>>

\* a simple delta load ends by removing latest_pk
SimpleRemovePk(r) ==
    /\ run[r].pc = "simple_rm"
    /\ lpk' = <<>>
    /\ Goto(r, "unlock")
    /\ UNCHANGED <<src, now, skew, tbl, meta, schema, deltaCols, lock, deltaExists, delta, d1, d2, pkts, procs, runs, changes, faults>>

\* ---------------------------------------------------- do_append_inserts_load
\* the watermark; a falsy one (None, 0) gives no criterion at all
AppendInsertsWatermark(r) ==
    /\ run[r].pc = "ai_watermark"
    /\ LET w == _get_latest_delta_value
       IN run' = [run EXCEPT ![r].trail = @ \cup {run[r].pc}, ![r].pc = "lu_write", ![r].luRet = "unlock",
                             ![r].deltaLoadValue = IF w = 0 THEN Null ELSE w]
    /\ UNCHANGED <<src, now, skew, tbl, meta, schema, deltaCols, lock, deltaExists, delta, lpk, d1, d2, pkts, procs, runs, changes, faults>>

\* ------------------------------------------------ post-load, except, finally
Unlock(r) ==
    /\ run[r].pc = "unlock"
    /\ lock # "none"
    /\ lock' = "none"
    /\ Goto(r, "vacuum")
    /\ UNCHANGED <<src, now, skew, tbl, meta, schema, deltaCols, deltaExists, delta, lpk, d1, d2, pkts, procs, runs, changes, faults>>

\* the lock file is gone already (another run has removed it): remove() either
\* does nothing or raises, depending on the destination
UnlockMissing(r) ==
    /\ run[r].pc = "unlock"
    /\ lock = "none"
    /\ \E raises \in BOOLEAN :
        run' = [run EXCEPT ![r].trail = @ \cup {run[r].pc}, ![r].pc = IF raises THEN "except" ELSE "vacuum",
                              ![r].result = IF raises THEN "error" ELSE "none",
                              ![r].failedAt = IF raises THEN "unlock" ELSE "none"]
    /\ UNCHANGED <<src, now, skew, tbl, meta, schema, deltaCols, lock, deltaExists, delta, lpk, d1, d2, pkts, procs, runs, changes, faults>>

\* vacuum of latest_pk, delta_1, delta_2, primary_keys_ts: no table content changes
Vacuum(r) ==
    /\ run[r].pc = "vacuum"
    /\ run' = [run EXCEPT ![r].trail = @ \cup {run[r].pc}, ![r].pc = "finally", ![r].result = "ok"]
    /\ UNCHANGED <<src, now, skew, tbl, meta, schema, deltaCols, lock, deltaExists, delta, lpk, d1, d2, pkts, procs, runs, changes, faults>>

TryPcs == {"lock", "dispatch", "fl_max", "fl_write", "fl_manifest", "dl_begin", "dl_snapshot",
           "lu_write", "hau", "ch_write", "wlp", "deletes", "simple_rm", "ai_watermark",
           "unlock", "vacuum"}

\* variant: the exception is swallowed and the run returns normally
FailReturns(r) ==
    /\ run[r].pc \in TryPcs
    /\ faults > 0
    /\ faults' = faults - 1
    /\ run' = [run EXCEPT ![r].trail = @ \cup {run[r].pc}, ![r].pc = "finally", ![r].result = "ok", ![r].failedAt = run[r].pc]
    /\ UNCHANGED <<src, now, skew, tbl, meta, schema, deltaCols, lock, deltaExists, delta, lpk, d1, d2, pkts, procs, runs, changes>>

\* a call inside the try block raises
Fail(r) ==
    /\ run[r].pc \in TryPcs
    /\ faults > 0
    /\ faults' = faults - 1
    /\ run' = [run EXCEPT ![r].trail = @ \cup {run[r].pc}, ![r].pc = "except", ![r].result = "error", ![r].failedAt = run[r].pc]
    /\ UNCHANGED <<src, now, skew, tbl, meta, schema, deltaCols, lock, deltaExists, delta, lpk, d1, d2, pkts, procs, runs, changes>>

\* variant: the version comparison the other way round
NeedsRestoreReversed(r) ==
    /\ run[r].lastVersionPk # Null
    /\ LpkExists
    /\ LpkVersion < run[r].lastVersionPk

\* the except block: restore latest_pk to last_version_pk when it has moved on
NeedsRestore(r) ==
    /\ run[r].lastVersionPk # Null
    /\ LpkExists
    /\ LpkVersion > run[r].lastVersionPk

Except(r) ==
    /\ run[r].pc = "except"
    /\ lpk' = IF NeedsRestore(r) THEN Append(lpk, LpkAt(run[r].lastVersionPk)) ELSE lpk
    /\ Goto(r, "finally")
    /\ UNCHANGED <<src, now, skew, tbl, meta, schema, deltaCols, lock, deltaExists, delta, d1, d2, pkts, procs, runs, changes, faults>>

\* version() or restore() raises inside the except block
ExceptRaises(r) ==
    /\ run[r].pc = "except"
    /\ run[r].lastVersionPk # Null
    /\ faults > 0
    /\ faults' = faults - 1
    /\ run' = [run EXCEPT ![r].trail = @ \cup {run[r].pc}, ![r].pc = "finally", ![r].restoreFailed = TRUE]
    /\ UNCHANGED <<src, now, skew, tbl, meta, schema, deltaCols, lock, deltaExists, delta, lpk, d1, d2, pkts, procs, runs, changes>>

\* variant: a finally block that leaves the lock file alone
FinallyKeepsLock(r) ==
    /\ run[r].pc = "finally"
    /\ Goto(r, "done")
    /\ UNCHANGED <<src, now, skew, tbl, meta, schema, deltaCols, lock, deltaExists, delta, lpk, d1, d2, pkts, procs, runs, changes, faults>>

\* the finally block: the lock file is removed if it exists
Finally(r) ==
    /\ run[r].pc = "finally"
    /\ lock' = "none"
    /\ Goto(r, "done")
    /\ UNCHANGED <<src, now, skew, tbl, meta, schema, deltaCols, deltaExists, delta, lpk, d1, d2, pkts, procs, runs, changes, faults>>

\* exists() or remove() raises in the finally block
FinallyRaises(r) ==
    /\ run[r].pc = "finally"
    /\ faults > 0
    /\ faults' = faults - 1
    /\ run' = [run EXCEPT ![r].trail = @ \cup {run[r].pc}, ![r].pc = "done", ![r].result = "error", ![r].unlockFailed = TRUE]
    /\ UNCHANGED <<src, now, skew, tbl, meta, schema, deltaCols, lock, deltaExists, delta, lpk, d1, d2, pkts, procs, runs, changes>>

\* the call has returned or raised; the caller goes on
Return(r) ==
    /\ run[r].pc = "done"
    /\ run' = [run EXCEPT ![r] = [InitRun EXCEPT !.prevBranch = run[r].branch,
                                                  !.prevResult = run[r].result,
                                                  !.prevSrc = src,
                                                  !.prevFlMode = run[r].flMode,
                                                  !.prevFailedAt = run[r].failedAt,
                                                  !.prevPreDelta = run[r].preDelta,
                                                  !.prevOldLpk = IF run[r].oldPkVersion = Null THEN {}
                                                                ELSE LpkAt(run[r].oldPkVersion),
                                                  !.prevStrange = run[r].strange,
                                                  !.prevNoComplex = run[r].noComplex,
                                                  !.prevChanged = (changes # run[r].startChanges)]]
    /\ UNCHANGED <<src, now, skew, tbl, meta, schema, deltaCols, lock, deltaExists, delta, lpk, d1, d2, pkts, procs, runs, changes, faults>>

\* a table with a primary key and a delta column
KeyedTable == [havePk |-> TRUE, pkIdentity |-> FALSE, deltaCol |-> "dc",
               baseLen |-> NarrowSqlLen, pkLen |-> IntPkLen, cols |-> 0]

\* the same with a long character key: two PK records do not fit one statement
LongKeyTable == [KeyedTable EXCEPT !.pkLen = LongPkLen]

\* a wide table with a long character key
WideLongKeyTable == [KeyedTable EXCEPT !.baseLen = WideSqlLen, !.pkLen = LongPkLen]

KeyedTables == {KeyedTable, LongKeyTable}

\* one orchestrator, synchronized clocks, no call raises
Init ==
    /\ InitCommon
    /\ skew = 0
    /\ tbl \in KeyedTables
    /\ procs = {1}
    /\ runs = MaxRuns
    /\ changes = MaxChanges
    /\ faults = 0

Next ==
    \/ AllIdle /\ Insert
    \/ AllIdle /\ Update
    \/ AllIdle /\ Delete
    \/ \E r \in procs : StartRun(r)
    \/ \E r \in procs : WriteMeta(r)
    \/ \E r \in procs : ProbeVersion(r)
    \/ \E r \in procs : AcquireLock(r)
    \/ \E r \in procs : Dispatch(r)
    \/ \E r \in procs : FullLoadMax(r)
    \/ \E r \in procs : FullLoadWrite(r)
    \/ \E r \in procs : FullLoadManifest(r)
    \/ \E r \in procs : RestorePkSucceeds(r)
    \/ \E r \in procs : RestorePkFails(r)
    \/ \E r \in procs : DeltaBegin(r)
    \/ \E r \in procs : _retrieve_primary_key_data(r)
    \/ \E r \in procs : _load_updates_to_delta(r)
    \/ \E r \in procs : NoStrangeUpdates(r)
    \/ \E r \in procs : StrangeReplay(r)
    \/ \E r \in procs : StrangeChunked(r)
    \/ \E r \in procs : ChunkWrite(r)
    \/ \E r \in procs : ChunksAppend(r)
    \/ \E r \in procs : write_latest_pk(r)
    \/ \E r \in procs : do_deletes(r)
    \/ \E r \in procs : SimpleRemovePk(r)
    \/ \E r \in procs : AppendInsertsWatermark(r)
    \/ \E r \in procs : Unlock(r)
    \/ \E r \in procs : Vacuum(r)
    \/ \E r \in procs : Finally(r)
    \/ \E r \in procs : Return(r)

Spec == Init /\ [][Next]_vars

\* every kind of table
InitDispatch ==
    /\ InitCommon
    /\ skew = 0
    /\ tbl \in Tables
    /\ procs = {1}
    /\ runs = MaxRuns
    /\ changes = MaxChanges
    /\ faults = 0

NextDispatch ==
    \/ Next
    \/ \E r \in procs : Except(r)

SpecDispatch == InitDispatch /\ [][NextDispatch]_vars

\* calls may raise
InitFault ==
    /\ InitCommon
    /\ skew = 0
    /\ tbl \in KeyedTables
    /\ procs = {1}
    /\ runs = FaultRuns
    /\ changes = FaultChanges
    /\ faults = MaxFaults

NextFault ==
    \/ Next
    \/ \E r \in procs : ProbeVersionRaises(r)
    \/ \E r \in procs : FailEarly(r)
    \/ \E r \in procs : RestorePkRaises(r)
    \/ \E r \in procs : Fail(r)
    \/ \E r \in procs : Except(r)
    \/ \E r \in procs : ExceptRaises(r)
    \/ \E r \in procs : FinallyRaises(r)

SpecFault == InitFault /\ [][NextFault]_vars

\* two orchestrators on the same destination, for a table without a delta
\* column (every run is a full load) and a source that does not change
PlainTable == [havePk |-> TRUE, pkIdentity |-> FALSE, deltaCol |-> "none",
               baseLen |-> NarrowSqlLen, pkLen |-> IntPkLen, cols |-> 0]

InitConc ==
    /\ InitCommon
    /\ skew = 0
    /\ tbl = PlainTable
    /\ procs = {1, 2}
    /\ runs = ConcRuns
    /\ changes = 0
    /\ faults = 0

NextConc ==
    \/ AgeLock
    \/ \E r \in procs : StartRun(r)
    \/ \E r \in procs : WriteMeta(r)
    \/ \E r \in procs : ProbeVersion(r)
    \/ \E r \in procs : AcquireLock(r)
    \/ \E r \in procs : Dispatch(r)
    \/ \E r \in procs : FullLoadMax(r)
    \/ \E r \in procs : FullLoadWrite(r)
    \/ \E r \in procs : Unlock(r)
    \/ \E r \in procs : UnlockMissing(r)
    \/ \E r \in procs : Vacuum(r)
    \/ \E r \in procs : Except(r)
    \/ \E r \in procs : Finally(r)
    \/ \E r \in procs : Return(r)

SpecConc == InitConc /\ [][NextConc]_vars

\* the same, with a lake clock that may run behind or ahead of the source clock
InitSkew ==
    /\ InitCommon
    /\ skew \in {-MaxSkew, 0, MaxSkew}
    /\ tbl \in KeyedTables
    /\ procs = {1}
    /\ runs = MaxRuns
    /\ changes = MaxChanges
    /\ faults = 0

SpecSkew == InitSkew /\ [][Next]_vars

\* ------------------------------------------- a source that changes mid-run
LiveChanges == 2

\* the source is written by its own clients while a run is between two steps
InitLive ==
    /\ InitCommon
    /\ skew = 0
    /\ tbl = KeyedTable
    /\ procs = {1}
    /\ runs = MaxRuns
    /\ changes = LiveChanges
    /\ faults = 0

NextLive ==
    \/ Next
    \/ Insert
    \/ Update
    \/ Delete

SpecLive == InitLive /\ [][NextLive]_vars

\* ------------------------------------------------------ a run that is retried
RetryRuns == 4
RetryFaults == 1

\* one call inside the try block raises; the caller calls again
InitRetry ==
    /\ InitCommon
    /\ skew = 0
    /\ tbl = KeyedTable
    /\ procs = {1}
    /\ runs = RetryRuns
    /\ changes = FaultChanges
    /\ faults = RetryFaults

NextRetry ==
    \/ Next
    \/ \E r \in procs : Fail(r)
    \/ \E r \in procs : Except(r)

SpecRetry == InitRetry /\ [][NextRetry]_vars

\* ----------------------------------- the statements of the OPENJSON branch
\* keyed tables of every shape of rendered length; synchronized clocks, no faults
InitSql ==
    /\ InitCommon
    /\ tbl \in KeyedTables \cup {WideLongKeyTable}
    /\ skew = 0
    /\ procs = {1}
    /\ runs = MaxRuns
    /\ changes = MaxChanges
    /\ faults = 0

SpecSql == InitSql /\ [][Next]_vars

\* --------------------------------------------- the column set may change
\* a table with and a table without a delta column; the columns may be altered
\* between two calls
InitSchema ==
    /\ InitCommon
    /\ tbl \in {KeyedTable, PlainTable}
    /\ skew = 0
    /\ procs = {1}
    /\ runs = MaxRuns
    /\ changes = MaxChanges
    /\ faults = 0

NextSchema ==
    \/ NextDispatch
    \/ AllIdle /\ AlterTable

SpecSchema == InitSchema /\ [][NextSchema]_vars

\* ----------------------------------------- many strange updates in one run
\* a DELTA_FULL run at the start of _handle_additional_updates: an earlier full
\* load has put one row with the greatest delta value into delta/ and latest_pk,
\* k rows with a smaller delta value were inserted since, steps 1 and 2 of the
\* run are done (delta_1 is empty), and delta_2 is empty or left by an earlier run
FirstRow == SrcRow(1, MaxDc)

FirstLoad == {[pk |-> 1, dc |-> MaxDc, val |-> MaxDc, vf |-> 1, del |-> FALSE, full |-> TRUE]}

StaleDelta2 == {[pk |-> 1, dc |-> 0, val |-> 0, vf |-> 0, del |-> FALSE, full |-> FALSE]}

\* the numbers of strange updates: few, and one more than the threshold
StrangeCounts == (0..MaxStrange) \cup {StrangeThreshold + 1}

InitChunks ==
    /\ \E k \in StrangeCounts : src = {FirstRow} \cup {SrcRow(p, 0) : p \in 2..(k + 1)}
    /\ tbl \in KeyedTables
    /\ d2 \in {{}, StaleDelta2}
    /\ now = 3
    /\ skew = 0
    /\ meta = 2
    /\ schema = 0
    /\ deltaCols = 0
    /\ lock = "fresh"
    /\ deltaExists = TRUE
    /\ delta = FirstLoad
    /\ lpk = <<{PkDc(FirstRow)}>>
    /\ d1 = {}
    /\ pkts = {PkDc(x) : x \in src}
    /\ run = [r \in AllRunners |->
                IF r = 1
                THEN [InitRun EXCEPT !.pc = "hau", !.branch = "delta", !.luRet = "hau",
                                     !.lastVersionPk = 0, !.oldPkVersion = 0,
                                     !.deltaLoadValue = MaxDc,
                                     !.hadDelta = TRUE, !.hadLpk = TRUE,
                                     !.preLpk = {PkDc(FirstRow)}, !.preDelta = FirstLoad,
                                     !.created = TRUE, !.metaBefore = 1,
                                     !.prevBranch = "full_overwrite", !.prevResult = "ok",
                                     !.prevSrc = {FirstRow},
                                     !.trail = {"idle", "meta", "probe", "lock", "dispatch",
                                                "dl_begin", "dl_snapshot", "lu_write"}]
                ELSE InitRun]
    /\ procs = {1}
    /\ runs = 0
    /\ changes = 0
    /\ faults = 0

NextChunks ==
    \/ \E r \in procs : NoStrangeUpdates(r)
    \/ \E r \in procs : StrangeReplay(r)
    \/ \E r \in procs : StrangeChunked(r)
    \/ \E r \in procs : ChunkWrite(r)
    \/ \E r \in procs : ChunksAppend(r)
    \/ \E r \in procs : _load_updates_to_delta(r)
    \/ \E r \in procs : write_latest_pk(r)

SpecChunks == InitChunks /\ [][NextChunks]_vars

\* -------------------------------------------------------------- properties
\* a run has terminated (successfully) and the caller has not gone on yet
Terminated(r) == run[r].pc = "done"

Succeeded(r) == Terminated(r) /\ run[r].result = "ok"

\* the projection of delta/: per PK the row with the maximum __valid_from,
\* tombstones dropped, augmentation columns dropped
Snapshot(D) == {[pk |-> x.pk, dc |-> x.dc, val |-> x.val] : x \in {y \in NewestRows(D) : ~y.del}}

\* the branches whose loaders write latest_pk (given a delta column)
ManifestWriters == {"full_overwrite", "full_append", "delta"}

\* the rows the run has appended to delta/
Appended(r) == delta \ run[r].preDelta

AppendedFor(r, p) == {x \in Appended(r) : x.pk = p}

\* the PKs deleted from the source since the caller's previous call
DeletedPks(r) == PkSet(run[r].prevSrc) \ PkSet(src)

\* C1: after any successful run, in any load mode, the snapshot of delta/ (per
\* PK the newest row, tombstones dropped) is exactly the current source rows
C1_SnapshotEquivalence ==
    \A r \in procs : Succeeded(r) => Snapshot(delta) = src

\* C2: after every successful run that writes latest_pk (a full load with a
\* delta column, or a DELTA_FULL run), latest_pk holds exactly the (pk,
\* delta_col) pairs of the current source rows
C2_ManifestCorrect ==
    \A r \in procs : Succeeded(r) /\ run[r].branch \in ManifestWriters /\ HasDc
        => LpkExists /\ LpkRows = {PkDc(s) : s \in src}

\* exactly one row was appended for each PK of P, a tombstone, and no tombstone
\* for a PK that is still in the source
TombstonesExact(r, P) ==
    /\ \A p \in P :
        /\ Cardinality(AppendedFor(r, p)) = 1
        /\ \A x \in AppendedFor(r, p) : x = Tombstone(p, x.vf)
    /\ \A p \in PkSet(src) : \A x \in AppendedFor(r, p) : ~x.del

\* C3 (as stated): a row in the source at run N and deleted before run N+1, a
\* DELTA_FULL run, makes run N+1 append exactly one row for that PK, a
\* tombstone; PKs still in the source get none
C3_DeleteVisibilityOfSourceRows ==
    \A r \in procs :
        Succeeded(r) /\ run[r].branch = "delta" /\ run[r].prevResult = "ok"
            => TombstonesExact(r, DeletedPks(r))

\* the run went through the steps of DELTA_FULL (no fallback to a full load)
DeltaFullRun(r) == run[r].branch = "delta" /\ run[r].flMode = "none"

\* the PKs that latest_pk held when the run started and the source no longer has
VanishedPks(r) == PkSet(run[r].preLpk) \ PkSet(src)

\* C3 (amended): a PK that latest_pk holds when a DELTA_FULL run starts and that
\* is no longer in the source makes the run, unless it falls back to a full
\* load, append exactly one row for that PK, a tombstone; PKs still in the
\* source get none
C3_DeleteVisibility ==
    \A r \in procs :
        Succeeded(r) /\ DeltaFullRun(r) /\ run[r].hadLpk
            => TombstonesExact(r, VanishedPks(r))

C3_Witness ==
    \E r \in procs :
        /\ Succeeded(r) /\ DeltaFullRun(r) /\ run[r].hadLpk
        /\ VanishedPks(r) # {}
        /\ PkSet(src) # {}
        /\ \E x \in Appended(r) : x.del

\* the source rows that kept their PK since the caller's previous call while
\* their delta column changed to a value not greater than the watermark
StrangeRows(r) ==
    {s \in src : /\ \E o \in run[r].prevSrc : o.pk = s.pk /\ o.dc # s.dc
                 /\ s.dc <= MaxOf({x.dc : x \in run[r].preDelta} \ {Null})}

\* C4: the next DELTA_FULL run appends, for every such row, a row with the
\* row's current values, whichever strange-update branch is taken
C4_StrangeUpdateDetection ==
    \A r \in procs :
        Succeeded(r) /\ run[r].branch = "delta" /\ run[r].prevResult = "ok" =>
            \A s \in StrangeRows(r) :
                \E x \in AppendedFor(r, s.pk) : x.dc = s.dc /\ x.val = s.val /\ ~x.del

Idempotent(r) == Appended(r) = {} /\ LpkExists /\ LpkRows = run[r].preLpk

\* C5 (as stated): a DELTA_FULL run right after a successful run, with no source
\* change in between, appends nothing and leaves the rows of latest_pk as they
\* were
C5_IdempotenceAfterAnyRun ==
    \A r \in procs :
        Succeeded(r) /\ DeltaFullRun(r) /\ run[r].prevResult = "ok" /\ run[r].prevSrc = src
            => Idempotent(r)

\* latest_pk held exactly the (pk, delta_col) pairs of the source when the run started
ManifestCurrent(r) == run[r].hadLpk /\ run[r].preLpk = {PkDc(s) : s \in src}

\* C5 (amended): the same, when the previous run has left latest_pk with exactly
\* the (pk, delta_col) pairs of the source
C5_Idempotence ==
    \A r \in procs :
        (Succeeded(r) /\ DeltaFullRun(r) /\ run[r].prevResult = "ok" /\ run[r].prevSrc = src
            /\ ManifestCurrent(r))
            => Idempotent(r)

C5_Witness ==
    \E r \in procs :
        /\ Succeeded(r) /\ DeltaFullRun(r) /\ run[r].prevResult = "ok" /\ run[r].prevSrc = src
        /\ ManifestCurrent(r)
        /\ run[r].prevBranch = "delta"
        /\ Cardinality(src) = NumPk
        /\ run[r].preDelta # {}

\* the run failed in the try block after it had overwritten a latest_pk that
\* was there before the run
FailedAfterOverwrite(r) ==
    /\ Terminated(r)
    /\ run[r].result = "error"
    /\ run[r].wrotePk
    /\ run[r].hadLpk

RestorePossible(r) ==
    /\ run[r].failedAt \in TryPcs
    /\ run[r].lastVersionPk # Null
    /\ ~run[r].restoreFailed

LoadPcs == {"fl_max", "fl_write", "fl_manifest", "dl_begin", "dl_snapshot", "lu_write",
            "hau", "ch_write", "wlp", "deletes", "simple_rm", "ai_watermark"}

InLoadPhase(r) == run[r].pc \in LoadPcs \cup {"dispatch", "unlock"}

\* C7: two runs against the same destination are never in their load phase at
\* the same time
C7_MutualExclusion ==
    \A r1, r2 \in procs : r1 # r2 => ~(InLoadPhase(r1) /\ InLoadPhase(r2))

LoadStepRaised(r) == run[r].failedAt \in LoadPcs \/ run[r].absorbed

C10_Dispatch ==
    \A r \in procs :
        LET b == run[r].branch
            e == run[r].hadDelta
            m == run[r].mode
            keyed == HasDc /\ NumPkCols > 0
        IN b # "none" =>
            /\ b = "full_overwrite" <=> (~e \/ m = "overwrite")
            /\ b = "append_inserts" <=> (e /\ m = "append_inserts")
            /\ b = "full_append" <=> (e /\ m \notin {"overwrite", "append_inserts"}
                                        /\ (~keyed \/ m = "force_full"))
            /\ b = "simple_delta" <=> (e /\ keyed /\ m = "simple_delta")
            /\ b = "delta" <=> (e /\ keyed /\ m \in {"auto", "append"})

\* append_inserts is taken for a table without a delta column
C10_Witness ==
    \E r \in procs : run[r].branch = "append_inserts" /\ ~HasDc /\ run[r].hadDelta

\* the steps of the delta load after its preamble: PK snapshot, timestamp
\* updates, strange updates, manifest write, deletes
DeltaStepPcs == {"dl_snapshot", "lu_write", "hau", "ch_write", "wlp", "deletes"}

\* run r is a non-simple delta run in which restore_last_pk returned False or
\* raised, or which found no watermark in delta/
Fallback(r) ==
    /\ run[r].branch = "delta"
    /\ \/ run[r].restoreFalse
       \/ run[r].absorbed
       \/ run[r].luRet = "hau" /\ run[r].deltaLoadValue = Null

\* no call after the fallback raised
NoLaterFault(r) == run[r].failedAt = "none" /\ ~run[r].unlockFailed

\* C11: a non-simple delta run whose latest_pk reconstruction returns failure
\* or raises, or whose watermark is null, executes none of the delta steps; it
\* does a full load in append mode and, unless a later call raises, returns
\* without an error
C11_RecoverableAbsorbed ==
    \A r \in procs :
        Fallback(r) =>
            /\ run[r].trail \cap DeltaStepPcs = {}
            /\ run[r].pc \notin DeltaStepPcs
            /\ run[r].flMode = "append"
            /\ Terminated(r) /\ NoLaterFault(r) =>
                   /\ run[r].result = "ok"
                   /\ "fl_write" \in run[r].trail
                   /\ run[r].preDelta \subseteq delta

C11_Witness ==
    \E r \in procs : Succeeded(r) /\ Fallback(r) /\ run[r].absorbed

\* the run has appended a copy of source row s to delta/ with __is_full_load = f
AppendedCopy(r, s, f) ==
    \E x \in Appended(r) : x.pk = s.pk /\ x.dc = s.dc /\ x.val = s.val /\ ~x.del /\ x.full = f

\* C12 (as stated): with load_mode = append on an existing destination the run
\* appends a full load: every current source row is written to delta/ with
\* __is_full_load = true, also when PKs and a delta column are available
C12_AppendModeAppendsFullLoad ==
    \A r \in procs :
        Succeeded(r) /\ run[r].mode = "append" /\ run[r].hadDelta
            => \A s \in src : AppendedCopy(r, s, TRUE)

\* C12 (amended): with load_mode = append on an existing destination the run
\* appends a full load (every source row, __is_full_load = true) only when the
\* delta column or the PKs are missing, or when the delta load falls back for a
\* missing manifest or watermark; with PKs and a delta column it is a delta
\* load, and the rows it appends carry __is_full_load = false
C12_AppendMode ==
    \A r \in procs :
        run[r].mode = "append" /\ run[r].hadDelta =>
            /\ run[r].branch = IF HasDc /\ NumPkCols > 0 THEN "delta" ELSE "full_append"
            /\ Succeeded(r) /\ run[r].flMode = "append" => \A s \in src : AppendedCopy(r, s, TRUE)
            /\ DeltaFullRun(r) => \A x \in Appended(r) : ~x.full

C12_Witness ==
    \E r \in procs :
        /\ Succeeded(r) /\ run[r].mode = "append" /\ run[r].hadDelta /\ DeltaFullRun(r)
        /\ \E s \in src : AppendedCopy(r, s, FALSE) /\ ~AppendedCopy(r, s, TRUE)
        /\ \E s \in src : \A x \in Appended(r) : x.pk # s.pk

\* load_mode = append_inserts without a delta column and without a single
\* identity PK to stand in for it
NoDeltaColAvailable(r) ==
    /\ run[r].mode = "append_inserts"
    /\ ~HasDc
    /\ ~(NumPkCols = 1 /\ tbl.pkIdentity)

\* nothing under meta/, delta/ or delta_load/ differs from what the run found
NothingWritten(r) ==
    /\ meta = run[r].metaBefore
    /\ deltaExists = run[r].hadDelta
    /\ delta = run[r].preDelta
    /\ LpkExists = run[r].hadLpk
    /\ LpkExists => LpkRows = run[r].preLpk

\* C13: with load_mode = append_inserts and no delta column available the run
\* fails, whether or not delta/ exists, and has created or changed nothing
\* under meta/, delta/ or delta_load/
C13_ConfigErrorBeforeAnyWrite ==
    \A r \in procs :
        Terminated(r) /\ NoDeltaColAvailable(r)
            => run[r].result = "error" /\ NothingWritten(r)

\* C14: with load_mode = append_inserts on an existing destination, no delta
\* column configured and a single identity PK column, the run takes that column
\* as the delta column and completes the append-inserts load
C14_IdentityPkAutoSelected ==
    \A r \in procs :
        /\ Terminated(r) /\ run[r].mode = "append_inserts" /\ run[r].hadDelta
        /\ ~HasDc /\ NumPkCols = 1 /\ tbl.pkIdentity
        => run[r].result = "ok" /\ "lu_write" \in run[r].trail

\* latest_pk is as the run found it
ManifestUntouched(r) ==
    /\ ~run[r].wrotePk
    /\ LpkExists = run[r].hadLpk
    /\ LpkExists => LpkRows = run[r].preLpk

\* C15 (as stated): a run with load_mode = append_inserts and a delta column,
\* on a fresh destination as well as on an existing one, writes every row it
\* loads with __is_full_load = false and __is_deleted = false and does not
\* create or modify latest_pk
C15_AppendInsertsAnyDestination ==
    \A r \in procs :
        Succeeded(r) /\ run[r].mode = "append_inserts" /\ HasDc
            => /\ \A x \in Appended(r) : ~x.full /\ ~x.del
               /\ ManifestUntouched(r)

\* C15 (amended): on an existing destination a run with load_mode =
\* append_inserts and a delta column takes the append-inserts branch, every row
\* it writes into delta/ has __is_full_load = false and __is_deleted = false,
\* earlier rows stay, and latest_pk is neither created nor modified; on a fresh
\* destination the run is a full load in overwrite mode instead, whose rows
\* have __is_full_load = true and which creates latest_pk
C15_AppendInserts ==
    \A r \in procs :
        run[r].mode = "append_inserts" /\ HasDc =>
            /\ run[r].hadDelta =>
                /\ run[r].branch = "append_inserts"
                /\ \A x \in Appended(r) : ~x.full /\ ~x.del
                /\ run[r].preDelta \subseteq delta
                /\ ManifestUntouched(r)
            /\ ~run[r].hadDelta /\ Succeeded(r) =>
                /\ run[r].branch = "full_overwrite"
                /\ \A s \in src : AppendedCopy(r, s, TRUE)
                /\ \A x \in delta : x.full
                /\ run[r].wrotePk /\ LpkExists

C15_Witness ==
    \E r \in procs :
        /\ Succeeded(r) /\ run[r].mode = "append_inserts" /\ HasDc
        /\ run[r].hadDelta /\ run[r].hadLpk
        /\ \E x \in Appended(r) : ~x.full /\ ~x.del

\* the source rows whose (pk, delta_col) pair the manifest the run started from
\* does not hold
AdditionalRows(r) == {s \in src : PkDc(s) \notin LpkAt(run[r].oldPkVersion)}

\* C16: whenever the strange-update step takes the replay branch, after the
\* run every source row of additional_updates has a non-deleted row in delta/
\* with its current values
C16_ReplayBranchCorrect ==
    \A r \in procs :
        Succeeded(r) /\ run[r].strange = "replay" =>
            \A s \in AdditionalRows(r) :
                \E x \in delta : x.pk = s.pk /\ x.dc = s.dc /\ x.val = s.val /\ ~x.del

\* C17: every SQL statement sent to the source driver in the chunked OPENJSON
\* branch has at most 7000 characters
C17_SqlSizeBound ==
    \A r \in procs : run[r].maxSql <= SqlLimit

\* the source rows inserted or updated since the caller's previous call
ChangedRows(r) == src \ run[r].prevSrc

Project(D) == {[pk |-> x.pk, dc |-> x.dc, val |-> x.val] : x \in D}

\* the rows of D are exactly the rows S, one row each
OneRowEach(D, S) == Project(D) = S /\ Cardinality(D) = Cardinality(S)

\* the non-deleted rows of delta/ newer than everything the run found
NewerRows(r) ==
    {x \in delta : ~x.del /\ x.vf > MaxOf({y.vf : y \in run[r].preDelta})}

\* C18 (as stated): after a DELTA_FULL run that follows source inserts, updates
\* and deletes, the non-deleted rows of delta/ whose __valid_from exceeds the
\* pre-run maximum are exactly the inserted and the updated source rows, one
\* row each, and every row written by earlier runs is still present
C18_DeltaMinimalityByValidFrom ==
    \A r \in procs :
        Succeeded(r) /\ DeltaFullRun(r) /\ run[r].prevResult = "ok" =>
            /\ OneRowEach(NewerRows(r), ChangedRows(r))
            /\ run[r].preDelta \subseteq delta

\* latest_pk held exactly the (pk, delta_col) pairs of the source as it was at
\* the caller's previous call
ManifestOfPrevSrc(r) == run[r].hadLpk /\ run[r].preLpk = {PkDc(s) : s \in run[r].prevSrc}

\* C18 (amended): when latest_pk describes the source of the previous run and
\* the strange-update step does not take the replay branch, the non-deleted
\* rows a DELTA_FULL run appends to delta/ are exactly the inserted and the
\* updated source rows, one row each, and every earlier row is still present
C18_DeltaMinimality ==
    \A r \in procs :
        (Succeeded(r) /\ DeltaFullRun(r) /\ run[r].prevResult = "ok"
            /\ ManifestOfPrevSrc(r) /\ run[r].strange # "replay") =>
            /\ OneRowEach({x \in Appended(r) : ~x.del}, ChangedRows(r))
            /\ run[r].preDelta \subseteq delta

C18_Witness ==
    \E r \in procs :
        /\ Succeeded(r) /\ DeltaFullRun(r) /\ run[r].prevResult = "ok"
        /\ ManifestOfPrevSrc(r) /\ run[r].strange # "replay"
        /\ ChangedRows(r) # {}
        /\ DeletedPks(r) # {}
        /\ \E x \in Appended(r) : x.del

\* the join of latest_pk with delta/ on (pk, delta_col), non-deleted rows
ManifestJoin == {x \in delta : ~x.del /\ PkDc(x) \in LpkRows}

\* C19: after a successful DELTA_FULL run every (pk, delta_col) pair of
\* latest_pk matches a row of delta/ that carries the current source values of
\* that PK, PKs deleted from the source have no pair, and the join of latest_pk
\* with delta/ returns exactly the current source rows
C19_ManifestTableConsistency ==
    \A r \in procs :
        Succeeded(r) /\ DeltaFullRun(r) =>
            /\ LpkExists
            /\ \A p \in LpkRows :
                \E x \in ManifestJoin : PkDc(x) = p /\ [pk |-> x.pk, dc |-> x.dc, val |-> x.val] \in src
            /\ PkSet(LpkRows) \subseteq PkSet(src)
            /\ Project(ManifestJoin) = src

\* the run has appended one row for every current source row, flagged as a
\* full load, each newer than every row it found, and has kept the rows it found
FullLoadAppended(r) ==
    /\ OneRowEach(Appended(r), src)
    /\ \A x \in Appended(r) :
        /\ x.full /\ ~x.del
        /\ \A y \in run[r].preDelta : x.vf > y.vf
    /\ run[r].preDelta \subseteq delta

\* C20 (as stated): for a source without primary keys every run on an existing
\* destination is a full load in append mode: one appended row per current
\* source row, each with a __valid_from greater than every earlier one
C20_NoPkAlwaysFullAppend ==
    \A r \in procs :
        NumPkCols = 0 /\ run[r].hadDelta /\ run[r].branch # "none" =>
            /\ run[r].branch = "full_append"
            /\ Succeeded(r) => FullLoadAppended(r)

\* C20 (amended): the same for every load_mode other than overwrite (which
\* replaces delta/) and append_inserts (which takes the append-inserts branch)
C20_NoPkFullAppend ==
    \A r \in procs :
        (NumPkCols = 0 /\ run[r].hadDelta /\ run[r].branch # "none"
            /\ run[r].mode \notin {"overwrite", "append_inserts"}) =>
            /\ run[r].branch = "full_append"
            /\ Succeeded(r) => FullLoadAppended(r)

C20_Witness ==
    \E r \in procs :
        /\ NumPkCols = 0 /\ run[r].hadDelta /\ Succeeded(r)
        /\ run[r].mode \notin {"overwrite", "append_inserts"}
        /\ run[r].preDelta # {}
        /\ Cardinality(Appended(r)) = NumPk

\* the PKs whose last row in delta/ by __valid_from is a tombstone (every row
\* of the PK with the greatest __valid_from is one)
TombstoneLast == {p \in PKs : /\ \E x \in delta : x.pk = p
                              /\ \A x \in NewestRows(delta) : x.pk = p => x.del}

\* C21: after any sequence of runs and source changes, when the last run has
\* succeeded, a PK whose last row in delta/ ordered by __valid_from is a
\* tombstone is not in the source
C21_TombstoneLast ==
    \A r \in procs : Succeeded(r) => TombstoneLast \cap PkSet(src) = {}

\* C22: after every run, successful or failed, meta/schema.json holds the
\* column set that was used for the most recent write into delta/
C22_SchemaFile ==
    \A r \in procs : Terminated(r) /\ deltaCols # Null => schema = deltaCols

\* C23: once latest_pk exists it still exists after every later run, in every
\* load mode, whether the run succeeds or fails
C23_LatestPkSurvives ==
    \A r \in procs : Terminated(r) /\ run[r].hadLpk => LpkExists

\* the tombstone rows of D
Tombstones(D) == {x \in D : x.del}

\* C24 (as stated): a tombstone row, once appended to delta/, is still there
\* unchanged after every later run in every load mode
C24_TombstonesKeptByEveryRun ==
    \A r \in procs : Terminated(r) => Tombstones(run[r].preDelta) \subseteq delta

\* C24 (amended): every run that does not take the full-load-overwrite branch
\* keeps, at every step and also when it fails, the tombstone rows it found in
\* delta/ unchanged; a full load in overwrite mode replaces delta/ and leaves
\* no tombstone behind
C24_TombstonesAppendOnly ==
    \A r \in procs :
        /\ run[r].pc # "idle" /\ run[r].branch # "full_overwrite"
            => Tombstones(run[r].preDelta) \subseteq delta
        /\ run[r].branch = "full_overwrite" /\ "fl_write" \in run[r].trail
            => Tombstones(delta) = {}

C24_Witness ==
    \E r \in procs :
        /\ Terminated(r) /\ run[r].branch \notin {"none", "full_overwrite"}
        /\ Tombstones(run[r].preDelta) # {}
        /\ Tombstones(Appended(r)) # {}

RECURSIVE Flatten(_)
Flatten(q) == IF q = <<>> THEN <<>> ELSE Head(q) \o Flatten(Tail(q))

\* the chunks partition the list: same PKs in the same order, every chunk
\* non-empty and of length at most size
PartitionOf(chunks, list, size) ==
    /\ Flatten(chunks) = list
    /\ \A i \in 1..Len(chunks) : Len(chunks[i]) >= 1 /\ Len(chunks[i]) <= size

\* C25: in the chunked OPENJSON branch the chunks partition the PK list of
\* real_additional_updates, and after all chunks are written delta_2 holds the
\* source rows of exactly these PKs, one row each, whatever delta_2 held before
\* and whether or not a chunk was split
C25_ChunkedFetchComplete ==
    \A r \in procs :
        run[r].strange = "chunked" =>
            /\ run[r].pc = "ch_write" /\ run[r].first =>
                PartitionOf(run[r].chunks, SetToSeq(real_additional_updates(r)), BatchSize)
            /\ (run[r].pc = "ch_write" /\ run[r].chunks = <<>>) \/ run[r].pc = "wlp" =>
                OneRowEach(d2, {x \in src : x.pk \in real_additional_updates(r)})

C25_Witness ==
    \E r \in procs :
        /\ run[r].strange = "chunked" /\ run[r].pc = "wlp"
        /\ Cardinality(real_additional_updates(r)) > BatchSize
        /\ run[r].maxSql > SqlLimit
        /\ OneRowEach(d2, {x \in src : x.pk \in real_additional_updates(r)})

\* ------------------------------------------------------------ the delete set
\* a DELTA_FULL run that has just left do_deletes
AfterDeletes(r) == run[r].pc = "unlock" /\ "deletes" \in run[r].trail

\* the PKs the run has appended a tombstone for
Tombstoned(r) == {x.pk : x \in Tombstones(Appended(r))}

\* C26 (as stated): the PKs a DELTA_FULL run tombstones are the PKs of latest_pk
\* at the pre-run version minus the PKs of primary_keys_ts, also when the
\* source changes during the run
C26_DeleteSetAgainstSnapshot ==
    \A r \in procs :
        AfterDeletes(r) =>
            Tombstoned(r) = PkSet(LpkAt(run[r].oldPkVersion)) \ PkSet(pkts)

\* C26 (amended): they are the PKs of latest_pk at the pre-run version minus the
\* PKs of latest_pk as the run has rewritten it, that is minus the PKs of
\* primary_keys_ts, delta_1 and delta_2 together
C26_DeleteSet ==
    \A r \in procs :
        AfterDeletes(r) =>
            /\ Tombstoned(r) = PkSet(LpkAt(run[r].oldPkVersion)) \ PkSet(LpkRows)
            /\ PkSet(LpkRows) = PkSet(pkts) \cup PkSet(d1) \cup PkSet(d2)

\* a run has spared a PK of the old manifest that its PK snapshot had missed and
\* its later reads have found
C26_Witness ==
    \E r \in procs :
        /\ AfterDeletes(r)
        /\ (PkSet(LpkAt(run[r].oldPkVersion)) \ PkSet(pkts)) \ Tombstoned(r) # {}
        /\ PkSet(d1) \cup PkSet(d2) # {}

\* ------------------------------------------------- the manifest's precedence
\* a run that has just left write_latest_pk
AfterWriteLatestPk(r) == run[r].pc = "deletes"

\* at most one row of T per PK
OnePerPk(T) == \A x, y \in T : x.pk = y.pk => x = y

\* the delta_col value that T holds for PK p
DcIn(T, p) == {x.dc : x \in {y \in T : y.pk = p}}

\* C27: after write_latest_pk every PK occurs at most once in latest_pk (the
\* three tables of the UNION ALL hold each PK at most once, and the anti-joins
\* make them disjoint), with the delta_col value of delta_2 if the PK is in
\* delta_2, else that of delta_1 if the PK is in delta_1, else that of
\* primary_keys_ts
C27_ManifestPrecedence ==
    \A r \in procs :
        AfterWriteLatestPk(r) =>
            /\ OnePerPk(d2) /\ OnePerPk(d1) /\ OnePerPk(pkts)
            /\ OnePerPk(LpkRows)
            /\ PkSet(LpkRows) = PkSet(d2) \cup PkSet(d1) \cup PkSet(pkts)
            /\ \A p \in PkSet(LpkRows) :
                DcIn(LpkRows, p) = IF p \in PkSet(d2) THEN DcIn(d2, p)
                                   ELSE IF p \in PkSet(d1) THEN DcIn(d1, p)
                                   ELSE DcIn(pkts, p)

\* latest_pk has been written from a delta_1 row that differs from the row of
\* primary_keys_ts with the same PK, next to a PK that only primary_keys_ts has
C27_Witness ==
    \E r \in procs :
        /\ AfterWriteLatestPk(r)
        /\ \E p \in PkSet(d1) \cap PkSet(pkts) : DcIn(d1, p) # DcIn(pkts, p)
        /\ PkSet(pkts) \ PkSet(d1) # {}

\* ------------------------------------------- the branch of the strange updates
\* count(real_additional_updates)
update_count(r) == Cardinality(real_additional_updates(r))

\* the run has just taken the replay branch (delta_1 is still that of step 2)
ReplayTaken(r) ==
    run[r].pc = "lu_write" /\ run[r].strange = "replay" /\ run[r].luRet = "wlp"

\* the run is about to read delta_2 in write_latest_pk
BeforeWriteLatestPk(r) == run[r].pc = "wlp"

\* C28: n = 0 leaves an empty delta_2 and appends nothing to delta/; n > 1000 or
\* no_complex_entries_load (n > 0) leaves an empty delta_2 and replays step 2 from
\* the smallest delta value of additional_updates; otherwise the chunked fetch
\* runs and delta_2 is appended to delta/. In every branch delta_2 holds only
\* what this run has written when write_latest_pk reads it.
C28_BranchSelection ==
    \A r \in procs :
        /\ ReplayTaken(r) =>
            /\ update_count(r) > 0
            /\ update_count(r) > StrangeThreshold \/ run[r].noComplex
            /\ d2 = {}
            /\ Appended(r) = d1
            /\ run[r].deltaLoadValue = ReplayWatermark(r)
        /\ BeforeWriteLatestPk(r) /\ run[r].strange = "none" =>
            /\ update_count(r) = 0
            /\ d2 = {}
            /\ Appended(r) = d1
        /\ BeforeWriteLatestPk(r) /\ run[r].strange = "replay" =>
            d2 = {}
        /\ BeforeWriteLatestPk(r) /\ run[r].strange = "chunked" =>
            /\ update_count(r) \in 1..StrangeThreshold
            /\ ~run[r].noComplex
            /\ d2 \subseteq delta
            /\ Appended(r) = d1 \cup d2
        /\ BeforeWriteLatestPk(r) =>
            /\ run[r].strange \in {"none", "replay", "chunked"}
            /\ d2 \cap run[r].preDelta = {}
            /\ d2 \cap StaleDelta2 = {}

\* more than 1000 strange updates have taken the replay although
\* no_complex_entries_load is off, with a delta_2 left by an earlier run
C28_Witness ==
    \E r \in procs :
        /\ BeforeWriteLatestPk(r)
        /\ run[r].strange = "replay"
        /\ ~run[r].noComplex
        /\ Cardinality(additional_updates(r)) > StrangeThreshold
        /\ d2 = {}

\* ------------------------------------------------------- retry after failure
\* what a DELTA_FULL run that succeeds leaves as the projection of delta/, when
\* it finds delta/ = D and latest_pk = L and the source S does not change:
\* the rows past the watermark and the strange updates (all of them, or those
\* the replay reaches) are loaded, the PKs of L that S lacks are tombstoned
DeltaRunLoads(D, L, S, nc) ==
    LET w == MaxOf({x.dc : x \in D} \ {Null})
        step2 == {s \in S : s.dc > w}
        au == {PkDc(s) : s \in S} \ L
        rau == PkSet(au) \ PkSet(step2)
    IN IF rau = {} THEN step2
       ELSE IF ReplayBranch(Cardinality(rau), nc)
            THEN step2 \cup {s \in S : s.dc > MinOf({x.dc : x \in au})}
            ELSE step2 \cup {s \in S : s.pk \in rau}

DeltaRunSnapshot(D, L, S, nc) ==
    LET loaded == DeltaRunLoads(D, L, S, nc)
        dead == PkSet(L) \ PkSet(S)
    IN loaded \cup {x \in Snapshot(D) : x.pk \notin PkSet(loaded) \cup dead}

\* a successful DELTA_FULL run leaves that projection
DeltaRunAsComputed ==
    \A r \in procs :
        Succeeded(r) /\ DeltaFullRun(r) =>
            Snapshot(delta) = DeltaRunSnapshot(run[r].preDelta, LpkAt(run[r].oldPkVersion), src,
                                               run[r].noComplex)

\* the step boundaries: after the PK snapshot, the delta_1 append, the delta_2
\* append, the latest_pk overwrite, the tombstone append
StepBoundaries == {"lu_write", "hau", "wlp", "deletes", "unlock"}

\* the values of no_complex_entries_load that both runs may have been called
\* with, as far as they have looked at it
SameFlag(r) ==
    {nc \in BOOLEAN : /\ run[r].prevStrange # "none" => nc = run[r].prevNoComplex
                      /\ run[r].strange # "none" => nc = run[r].noComplex}

\* a successful DELTA_FULL run that retries a DELTA_FULL run failed at a step
\* boundary, the source and the configuration unchanged
RetryOfFailedDelta(r) ==
    /\ Succeeded(r) /\ DeltaFullRun(r)
    /\ run[r].prevResult = "error" /\ run[r].prevBranch = "delta"
    /\ run[r].prevFlMode = "none"
    /\ run[r].prevFailedAt \in StepBoundaries
    /\ run[r].prevSrc = src
    /\ SameFlag(r) # {}

\* C29: after the retry the projection of delta/ and the rows of latest_pk are
\* what a success of the failed run would have left, and the PKs that latest_pk
\* held before the failed run and the source lacks have a tombstone from the
\* retry
C29_RetryAfterFailure ==
    \A r \in procs :
        RetryOfFailedDelta(r) =>
            /\ \A nc \in SameFlag(r) :
                Snapshot(delta) = DeltaRunSnapshot(run[r].prevPreDelta, run[r].prevOldLpk, src, nc)
            /\ LpkRows = {PkDc(s) : s \in src}
            /\ PkSet(run[r].prevOldLpk) \ PkSet(src) \subseteq Tombstoned(r)

\* ----------------------------------------- source changes between the steps
\* the source has not changed since the run started
Quiescent(r) == changes = run[r].startChanges

\* a successful DELTA_FULL run with a quiescent source, right after a DELTA_FULL
\* run during which the source has changed
AfterInterleavedRun(r) ==
    /\ Succeeded(r) /\ DeltaFullRun(r) /\ Quiescent(r)
    /\ run[r].prevBranch = "delta" /\ run[r].prevFlMode = "none"
    /\ run[r].prevResult = "ok"
    /\ run[r].prevChanged
    /\ run[r].prevSrc = src

\* C30: source changes that fall between the steps of a DELTA_FULL run are all
\* in the lake after the next successful DELTA_FULL run with a quiescent source:
\* the projection of delta/ is the source and latest_pk is the (pk, delta_col)
\* pairs of the source
C30_NoChangeLost ==
    \A r \in procs :
        AfterInterleavedRun(r) =>
            /\ Snapshot(delta) = src
            /\ LpkRows = {PkDc(s) : s \in src}

\* ------------------------------------------------------- repeated tombstones
\* two tombstones of one PK with no data row of that PK appended between them
\* (with synchronized clocks __valid_from is the order of the appends)
TombstonedTwice ==
    {t1 \in Tombstones(delta) :
        \E t2 \in Tombstones(delta) :
            /\ t2.pk = t1.pk /\ t1.vf < t2.vf
            /\ ~\E x \in delta : ~x.del /\ x.pk = t1.pk /\ t1.vf < x.vf /\ x.vf < t2.vf}

\* C31: delta/ never holds two tombstones of one PK without a data row of that
\* PK appended between them, whatever runs have succeeded or failed
C31_NoDoubleTombstone == TombstonedTwice = {}

\* ------------------------------------------------- data rows gained per run
\* the data rows of PK p that the run has appended
DataAppended(r, p) == {x \in Appended(r) : ~x.del /\ x.pk = p}

\* step 3 of the run is over
AfterStep3(r) == run[r].pc = "wlp" \/ "wlp" \in run[r].trail

\* C32 (as stated): in a DELTA_FULL run delta/ gains at most one data row per
\* PK, in every strange-update branch
C32_OneDataRowPerPkInEveryBranch ==
    \A r \in procs :
        DeltaFullRun(r) => \A p \in PKs : Cardinality(DataAppended(r, p)) <= 1

\* C32 (amended): so it is when step 3 finds no strange update or fetches them
\* by chunks (delta_1 and delta_2 then share no PK, and the data rows gained are
\* those of delta_1 and delta_2); in the replay branch delta_2 is empty and a
\* PK gains at most two data rows, one of step 2 and one of the replay
C32_OneDataRowPerPk ==
    \A r \in procs :
        DeltaFullRun(r) =>
            /\ run[r].strange # "replay" =>
                /\ \A p \in PKs : Cardinality(DataAppended(r, p)) <= 1
                /\ AfterStep3(r) =>
                    /\ PkSet(d1) \cap PkSet(d2) = {}
                    /\ {x \in Appended(r) : ~x.del} = d1 \cup d2
            /\ run[r].strange = "replay" =>
                /\ \A p \in PKs : Cardinality(DataAppended(r, p)) <= 2
                /\ d2 = {}
                /\ AfterStep3(r) => d1 \subseteq Appended(r)

\* a run has appended a row of delta_1 and a row of delta_2, for two PKs
C32_Witness ==
    \E r \in procs :
        /\ DeltaFullRun(r) /\ AfterStep3(r)
        /\ run[r].strange = "chunked"
        /\ d1 # {} /\ d2 # {}
        /\ d1 \cup d2 \subseteq Appended(r)

\* ------------------------------------------------ the append_inserts filter
\* MAX(delta_col) of delta/ as the run found it
WatermarkFound(r) == MaxOf({x.dc : x \in run[r].preDelta} \ {Null})

\* an append_inserts run on an existing destination that has a watermark, its
\* load done
AppendInsertsLoaded(r) ==
    /\ run[r].branch = "append_inserts"
    /\ run[r].hadDelta
    /\ WatermarkFound(r) # Null
    /\ "lu_write" \in run[r].trail

\* C33: an append_inserts run on an existing destination appends exactly the
\* source rows whose delta_col is greater than MAX(delta_col) of delta/, one
\* row each, whatever the watermark, 0 included
C33_AppendInsertsFilter ==
    \A r \in procs :
        AppendInsertsLoaded(r) =>
            OneRowEach(Appended(r), {s \in src : s.dc > WatermarkFound(r)})


====
